---- MODULE Spec2Model ----
(***************************************************************************)
(* Model of src/NOAADataRequest.py: the NOAADataRequest object             *)
(* (parse_response, request_result_page) and the driver                    *)
(* get_station_summary, which walks a date span in windows of `delta`      *)
(* days and pages through every window.                                    *)
(*                                                                         *)
(* Dates are day numbers (datetime.date with a fixed-day timedelta); the   *)
(* remote server is the environment: every call of requests.get is         *)
(* answered by a status and, for a 200, by a JSON body chosen freely.      *)
(***************************************************************************)
EXTENDS Integers, Sequences, FiniteSets, TLC

\* ------------------------------------------------------------------ bounds
MaxDay      == 1   \* start_date and end_date range over 0..MaxDay
MaxDelta    == 2   \* delta ranges over 1..MaxDelta days
MaxCount    == 2   \* metadata.resultset.count ranges over 0..MaxCount
MaxLimit    == 2   \* metadata.resultset.limit ranges over 0..MaxLimit
MaxOffset   == 2   \* metadata.resultset.offset ranges over 0..MaxOffset
MaxPageRecs == 1   \* a body carries at most MaxPageRecs records
MaxRecords  == 2   \* the server hands out at most MaxRecords records in a run
MaxReq      == 2   \* at most MaxReq requests are followed within one window

\* ------------------------------------------------------- program constants
StatusOK == 200
PageLimit == 1000   \* the 'limit' parameter of every request (line 99)

\* Values that are no number are coded below every number the model uses.
None   == -1   \* Python's None
Absent == -2   \* a key that the JSON body does not hold
NoRequest == [startdate |-> None, enddate |-> None, offset |-> None]
NoMeta == [count |-> Absent, limit |-> Absent, offset |-> Absent]

FailStatuses == {404, 503}

VARIABLES
    pc,                 \* position in get_station_summary
    start_date,         \* get_station_summary's start_date (advanced by delta)
    end_date,           \* get_station_summary's end_date
    delta,              \* get_station_summary's delta, in days
    current_page,       \* local current_page
    pages,              \* local pages
    RECORD_COUNT,       \* NOAA._RECORD_COUNT
    RECORDS_PER_PAGE,   \* NOAA._RECORDS_PER_PAGE
    CURRENT_PAGE,       \* NOAA._CURRENT_PAGE
    PAGES,              \* NOAA._PAGES
    RESULTS,            \* NOAA._RESULTS
    ret,                \* status returned by the last request_result_page
    \* ---- history of the run (not read by the program)
    start0,             \* start_date as passed by the caller
    req,                \* parameters of the last request issued
    windows,            \* <<startdate, enddate>> of every window requested
    winReqs,            \* number of requests issued in the current window
    inOrder,            \* the i-th request of the current window carried
                        \* offset i, for every request issued in it so far
    answer,             \* status the server gave the last request
    lastMeta,           \* metadata.resultset of the last answer as the server
                        \* wrote it (Absent for every key it did not hold)
    first,              \* status the server gave the first request of the
                        \* current window
    regular,            \* the current window's responses were all 200, echoed
                        \* the requested offset and agreed on count and limit
    winBase,            \* Len(RESULTS) when the current window was entered
    sent,               \* records handed out by the server so far
    held,               \* records the record-indexed server holds for a
                        \* window (IndexSpec; 0 and unused otherwise)
    slept               \* time.sleep(.2) ran since the last request

vars == <<pc, start_date, end_date, delta, current_page, pages, RECORD_COUNT,
          RECORDS_PER_PAGE, CURRENT_PAGE, PAGES, RESULTS, ret, start0, req,
          windows, winReqs, inOrder, answer, lastMeta, first, regular,
          winBase, sent, held, slept>>

obj   == <<RECORD_COUNT, RECORDS_PER_PAGE, CURRENT_PAGE, PAGES, RESULTS>>
dates == <<start_date, end_date, delta, start0, held>>
hist  == <<req, windows, winReqs, inOrder, answer, lastMeta, first, regular,
           winBase, sent, slept>>

\* ------------------------------------------------------------ JSON bodies
\* meta = "none": no 'metadata' key; "empty": metadata without 'resultset';
\* "resultset": metadata.resultset present, each of its keys present or not.
\* hasResults: the body holds a 'results' array (of records no earlier body
\* held: a record is the number the server gave it).
Fresh(n) == [i \in 1..n |-> sent + i]

Metadatas ==
    [meta : {"none", "empty"}, count : {Absent}, limit : {Absent},
     offset : {Absent}]
    \cup [meta   : {"resultset"},
          count  : (0..MaxCount) \cup {Absent},
          limit  : (0..MaxLimit) \cup {Absent},
          offset : (0..MaxOffset) \cup {Absent}]

Results ==
    {[hasResults |-> FALSE, results |-> << >>]}
    \cup {[hasResults |-> TRUE, results |-> Fresh(n)] :
             n \in {k \in 0..MaxPageRecs : sent + k <= MaxRecords}}

Bodies ==
    {[meta |-> m.meta, count |-> m.count, limit |-> m.limit,
      offset |-> m.offset, hasResults |-> r.hasResults,
      results |-> r.results] : m \in Metadatas, r \in Results}

\* request_data.get('metadata', {}).get('resultset', {}).get(key, 0)
MetaGet(b, key) ==
    IF b.meta = "resultset" /\ b[key] # Absent THEN b[key] ELSE 0

\* request_data.get('results', [])
ResultsGet(b) == IF b.hasResults THEN b.results ELSE << >>

\* mutant: the quotient is rounded down (count // limit)
CeilRoundsDown(a, b) == a \div b

\* math.ceil(a / b) for b > 0
Ceil(a, b) == IF a % b = 0 THEN a \div b ELSE (a \div b) + 1

\* mutant: the page's records replace the accumulated ones
ExtendReplaces(results, page) == page

\* line 70: self._RESULTS.extend(...)
Extend(results, page) == results \o page

\* lines 64-67: the page total; the division raises ZeroDivisionError
ParseRaises(b) == MetaGet(b, "count") # 0 /\ MetaGet(b, "limit") = 0

\* mutant: an empty result set counted as one page
PageTotalAtLeastOne(count, limit) ==
    IF count = 0 THEN 1 ELSE Ceil(count, limit)

PageTotal(count, limit) == IF count = 0 THEN 0 ELSE Ceil(count, limit)

\* ------------------------------------------------ get_station_summary
\* mutant: the day is not subtracted
WindowEndNoMinus(sd, d) == sd + d

\* line 172: end_date = start_date + delta - timedelta(days=1)
WindowEnd(sd, d) == sd + d - 1

\* line 188: start_date += delta
NextStart(sd, d) == sd + d

\* mutant: the span is walked until the dates meet
InSpanUntilEqual(sd, ed) == sd # ed

\* line 162: while start_date <= end_date
InSpan(sd, ed) == sd <= ed

\* mutant: the loop runs one page past the total
MorePagesInclusive(cp, p) == cp <= p

\* line 165: while current_page < pages
MorePages(cp, p) == cp < p

\* line 182: if current_page is None or pages is None
NoData(cp, p) == cp = None \/ p = None

\* the state after line 160, before the server is chosen
Start ==
    /\ pc = "outer"
    /\ start_date \in 0..MaxDay
    /\ end_date \in 0..MaxDay
    /\ delta \in 1..MaxDelta
    /\ start0 = start_date
    /\ current_page = None
    /\ pages = None
    /\ RECORD_COUNT = None
    /\ RECORDS_PER_PAGE = None
    /\ CURRENT_PAGE = None
    /\ PAGES = None
    /\ RESULTS = << >>
    /\ ret = None
    /\ req = NoRequest
    /\ windows = << >>
    /\ winReqs = 0
    /\ inOrder = TRUE
    /\ answer = None
    /\ lastMeta = NoMeta
    /\ first = None
    /\ regular = TRUE
    /\ winBase = 0
    /\ sent = 0
    /\ slept = FALSE

Init == Start /\ held = 0

\* lines 162-164: the outer test; a new window starts with current_page = 0,
\* pages = 1, or the function returns (line 191)
OuterTest ==
    /\ pc = "outer"
    /\ IF InSpan(start_date, end_date)
       THEN /\ current_page' = 0
            /\ pages' = 1
            /\ pc' = "inner"
       ELSE /\ pc' = "done"
            /\ UNCHANGED <<current_page, pages>>
    /\ winReqs' = 0
    /\ inOrder' = TRUE
    /\ first' = None
    /\ regular' = TRUE
    /\ winBase' = Len(RESULTS)
    /\ UNCHANGED <<obj, dates, ret, req, windows, answer, lastMeta, sent,
                   slept>>

\* lines 165-166: the inner test and the increment of current_page
InnerTest ==
    /\ pc = "inner"
    /\ IF MorePages(current_page, pages)
       THEN /\ current_page' = current_page + 1
            /\ pc' = "request"
       ELSE /\ pc' = "advance"
            /\ UNCHANGED current_page
    /\ UNCHANGED <<pages, obj, dates, ret, hist>>

\* what a call of request_result_page (lines 167-176) adds to the history:
\* the request's parameters and the server's answer
Issue(status, echo, count, limit) ==
    /\ req' = [startdate |-> start_date,
               enddate   |-> WindowEnd(start_date, delta),
               offset    |-> current_page]
    /\ windows' = IF winReqs = 0
                  THEN Append(windows,
                              <<start_date, WindowEnd(start_date, delta)>>)
                  ELSE windows
    /\ winReqs' = IF winReqs < MaxReq THEN winReqs + 1 ELSE winReqs
    /\ inOrder' = (inOrder /\ current_page = winReqs + 1)
    /\ answer' = status
    /\ lastMeta' = [count |-> count, limit |-> limit, offset |-> echo]
    /\ first' = IF winReqs = 0 THEN status ELSE first
    /\ regular' = /\ regular
                  /\ status = StatusOK
                  /\ echo = current_page
                  /\ count # Absent /\ count > 0
                  /\ limit # Absent /\ limit > 0
                  /\ winReqs > 0 =>
                        count = RECORD_COUNT /\ limit = RECORDS_PER_PAGE
    /\ slept' = FALSE

\* lines 135-142 with parse_response (lines 60-70): a 200 response
RequestOK(b) ==
    /\ pc = "request"
    /\ Issue(StatusOK, b.offset, b.count, b.limit)
    /\ sent' = sent + Len(ResultsGet(b))
    /\ RECORD_COUNT' = MetaGet(b, "count")
    /\ RECORDS_PER_PAGE' = MetaGet(b, "limit")
    /\ CURRENT_PAGE' = MetaGet(b, "offset")
    /\ IF ParseRaises(b)
       THEN /\ pc' = "raised"
            /\ UNCHANGED <<PAGES, RESULTS, ret>>
       ELSE /\ PAGES' = PageTotal(MetaGet(b, "count"), MetaGet(b, "limit"))
            /\ RESULTS' = Extend(RESULTS, ResultsGet(b))
            /\ ret' = StatusOK
            /\ pc' = "readback"
    /\ UNCHANGED <<current_page, pages, dates, winBase>>

\* mutant: a failed request raises (response.raise_for_status())
RequestFailRaises(status) ==
    /\ pc = "request"
    /\ Issue(status, Absent, Absent, Absent)
    /\ pc' = "raised"
    /\ UNCHANGED <<current_page, pages, obj, dates, ret, winBase, sent>>

\* mutant: a failed request clears the page metadata of the object
RequestFailClears(status) ==
    /\ pc = "request"
    /\ Issue(status, Absent, Absent, Absent)
    /\ ret' = status
    /\ pc' = "readback"
    /\ RECORD_COUNT' = None
    /\ RECORDS_PER_PAGE' = None
    /\ CURRENT_PAGE' = None
    /\ PAGES' = None
    /\ UNCHANGED <<current_page, pages, RESULTS, dates, winBase, sent>>

\* lines 135-137, 143-144: any other status is returned, nothing is parsed
RequestFail(status) ==
    /\ pc = "request"
    /\ Issue(status, Absent, Absent, Absent)
    /\ ret' = status
    /\ pc' = "readback"
    /\ UNCHANGED <<current_page, pages, obj, dates, winBase, sent>>

\* mutant: the local page counter is kept, only pages is read back
ReadBackKeepsCounter ==
    /\ pc = "readback"
    /\ pages' = PAGES
    /\ pc' = IF NoData(CURRENT_PAGE, PAGES) THEN "advance" ELSE "sleep"
    /\ UNCHANGED <<current_page, obj, dates, ret, hist>>

\* lines 178-183: the locals are read back from the object
ReadBack ==
    /\ pc = "readback"
    /\ current_page' = CURRENT_PAGE
    /\ pages' = PAGES
    /\ pc' = IF NoData(CURRENT_PAGE, PAGES) THEN "advance" ELSE "sleep"
    /\ UNCHANGED <<obj, dates, ret, hist>>

\* line 186: time.sleep(.2)
Sleep ==
    /\ pc = "sleep"
    /\ slept' = TRUE
    /\ pc' = "inner"
    /\ UNCHANGED <<current_page, pages, obj, dates, ret, req, windows,
                   winReqs, inOrder, answer, lastMeta, first, regular,
                   winBase, sent>>

\* line 188: start_date += delta
Advance ==
    /\ pc = "advance"
    /\ start_date' = NextStart(start_date, delta)
    /\ pc' = "outer"
    /\ UNCHANGED <<end_date, delta, start0, held, current_page, pages, obj,
                   ret, hist>>

\* The safety specification follows at most MaxReq requests per window.
Next ==
    \/ OuterTest
    \/ InnerTest
    \/ pc = "request" /\ winReqs < MaxReq /\ \E b \in Bodies : RequestOK(b)
    \/ pc = "request" /\ winReqs < MaxReq
          /\ \E s \in FailStatuses : RequestFail(s)
    \/ ReadBack
    \/ Sleep
    \/ Advance

Spec == Init /\ [][Next]_vars

\* The program is sequential and always takes its next step; the server
\* answers every request.
LiveNext ==
    \/ OuterTest
    \/ InnerTest
    \/ pc = "request" /\ \E b \in Bodies : RequestOK(b)
    \/ pc = "request" /\ \E s \in FailStatuses : RequestFail(s)
    \/ ReadBack
    \/ Sleep
    \/ Advance

LiveSpec == Init /\ [][LiveNext]_vars /\ WF_vars(LiveNext)


\* A server that answers every request by 200 and reads 'offset' as the
\* 1-based index of the first record to return: of the records 1..held of
\* the window it returns those from offset on, at most PageLimit of them,
\* with count = held, limit = PageLimit and the offset echoed.
IndexBody ==
    LET last == IF current_page + PageLimit - 1 < held
                THEN current_page + PageLimit - 1 ELSE held
        n    == IF last < current_page THEN 0 ELSE last - current_page + 1
    IN  [meta |-> "resultset", count |-> held, limit |-> PageLimit,
         offset |-> current_page, hasResults |-> TRUE,
         results |-> [i \in 1..n |-> current_page + i - 1]]

HeldChoices == {0, 1, PageLimit, PageLimit + 1}

IndexInit == Start /\ held \in HeldChoices

IndexNext ==
    \/ OuterTest
    \/ InnerTest
    \/ pc = "request" /\ RequestOK(IndexBody)
    \/ ReadBack
    \/ Sleep
    \/ Advance

IndexSpec == IndexInit /\ [][IndexNext]_vars

\* ------------------------------------------------------------ vocabulary
\* the pagination loop of the current window is past a request's return
AfterRequest == pc \in {"readback", "sleep", "inner", "advance"}

\* the pagination loop of the current window is over
WindowOver == pc = "advance" \/ (pc = "inner" /\ ~MorePages(current_page, pages))

\* records 1..n in the order the server handed them out
Handed(n) == [i \in 1..n |-> i]

\* the days covered by the windows requested so far
Covered == UNION {windows[i][1]..windows[i][2] : i \in 1..Len(windows)}

\* ------------------------------------------------------------------- C1
\* C1: when a request after the first page of a window is answered by a
\* non-200 status, no further request is issued for that window.
C1_FailureEndsWindow ==
    (winReqs >= 2 /\ req.offset >= 2 /\ answer # StatusOK) => pc # "request"

\* ------------------------------------------------------------------- C2
\* C2: the pagination loop of a window terminates, whatever the server
\* answers: every entry of the loop is followed by its exit (to the next
\* window, or by an exception leaving the function).
C2_PaginationTerminates ==
    (pc = "inner") ~> (pc \in {"advance", "raised"})

\* ------------------------------------------------------------------- C3
\* C3: in a window whose responses are all 200, echo the requested offset
\* and report the same count C > 0 and limit L > 0, the requests carry
\* offsets 1, 2, ... in order, never more than ceil(C / L) of them and
\* exactly ceil(C / L) when the window is over; the accumulated records are
\* the records handed out by the server, each once and in order.
C3_RecordConservation ==
    (regular /\ winReqs >= 1 /\ AfterRequest) =>
        /\ inOrder
        /\ winReqs <= Ceil(RECORD_COUNT, RECORDS_PER_PAGE)
        /\ WindowOver => winReqs = Ceil(RECORD_COUNT, RECORDS_PER_PAGE)
        /\ winReqs < Ceil(RECORD_COUNT, RECORDS_PER_PAGE) => ~WindowOver
        /\ RESULTS = Handed(sent)
        /\ Len(RESULTS) >= winBase

C3_Witness ==
    /\ pc = "advance" /\ regular /\ winReqs = 2
    /\ RECORD_COUNT = 2 /\ RECORDS_PER_PAGE = 1
    /\ Len(RESULTS) > winBase

\* ------------------------------------------------------------------- C4
\* C4: no request carries an enddate later than end_date, and once the
\* function has returned the windows requested cover exactly
\* [start_date, end_date].
C4_WindowCoverage ==
    /\ \A i \in 1..Len(windows) : windows[i][2] <= end_date
    /\ (pc = "done" /\ start0 <= end_date) => Covered = start0..end_date

\* ------------------------------------------------------------------- C5
\* C5: the first window starts at start_date, every window's enddate is one
\* day before the next window's startdate (increasing, no overlap, no gap),
\* and every request carries the startdate and enddate of its window.
C5_WindowContiguity ==
    /\ windows # << >> => windows[1][1] = start0
    /\ \A i \in 1..Len(windows) : windows[i][1] <= windows[i][2]
    /\ \A i \in 1..(Len(windows) - 1) : windows[i][2] + 1 = windows[i + 1][1]
    /\ req # NoRequest =>
           <<req.startdate, req.enddate>> = windows[Len(windows)]
    /\ pc \in {"request", "readback", "sleep"} /\ winReqs >= 1 =>
           <<start_date, WindowEnd(start_date, delta)>> = windows[Len(windows)]

C5_Witness ==
    /\ Len(windows) >= 2 /\ winReqs >= 2 /\ pc = "readback"

\* ------------------------------------------------------------------- C6
\* C6: time.sleep(.2) runs between any two consecutive requests: whenever a
\* request is about to be issued and one was issued before, the sleep has
\* run since.
C6_SleepBetweenRequests ==
    (pc = "request" /\ req # NoRequest) => slept

\* ------------------------------------------------------------------- C7
\* C7: called with start_date > end_date, the function issues no request,
\* raises nothing and returns an empty result.
C7_EmptySpan ==
    start0 > end_date =>
        /\ pc \in {"outer", "done"}
        /\ req = NoRequest /\ windows = << >>
        /\ RESULTS = << >>

C7_Witness == pc = "done" /\ start0 > end_date

\* ------------------------------------------------------------------- C8
\* C8 (as stated): after a first response of a window that is a 200 with
\* count 0, no second request is issued for the window, the loop is left
\* for the next window, and no record was appended for the window.
C8_EmptyWindowNoRecord ==
    (winReqs = 1 /\ first = StatusOK /\ RECORD_COUNT = 0 /\ pc # "outer") =>
        /\ AfterRequest
        /\ pc = "inner" => WindowOver
        /\ Len(RESULTS) = winBase

\* C8 (amended): after a first response of a window that is a 200 with
\* count 0, no second request is issued for the window and the loop is left
\* for the next window; the records appended for the window are those the
\* response carried (the accumulated records are the records handed out).
C8_EmptyWindow ==
    (winReqs = 1 /\ first = StatusOK /\ RECORD_COUNT = 0 /\ pc # "outer") =>
        /\ AfterRequest
        /\ pc = "inner" => WindowOver
        /\ RESULTS = Handed(sent)
        /\ Len(RESULTS) >= winBase

C8_Witness ==
    /\ winReqs = 1 /\ first = StatusOK /\ RECORD_COUNT = 0
    /\ pc = "advance" /\ Len(windows) >= 2 /\ Len(RESULTS) = winBase

\* ------------------------------------------------------------------- C9
\* C9: when the first request of a window is answered by a non-200 status,
\* that request stays the only one of the window, nothing is appended for
\* the window, nothing is raised and the loop is left for the next window.
C9_FirstPageFailure ==
    (winReqs >= 1 /\ first # StatusOK /\ pc # "outer") =>
        /\ winReqs = 1
        /\ AfterRequest
        /\ pc = "inner" => WindowOver
        /\ Len(RESULTS) = winBase

C9_Witness ==
    /\ first # StatusOK /\ winReqs = 1 /\ pc = "advance"
    /\ Len(windows) >= 2 /\ RESULTS # << >> /\ PAGES > 0

Written(key) == IF lastMeta[key] = Absent THEN 0 ELSE lastMeta[key]

\* ------------------------------------------------------------------ C11
\* C11: parse_response never raises on a 200 body because of a key the body
\* does not hold: no exception leaves it on a body without 'limit'.
C11_MissingKeysNeverRaise ==
    pc = "raised" => lastMeta.limit # Absent

\* ------------------------------------------------------------------ C12
\* C12: after an answer that supplied no echoed offset or no page total (a
\* non-200 answer, or a 200 body without 'offset', 'count' or 'limit'), no
\* further request is issued for the window.
C12_AbsentMetadataEndsWindow ==
    (winReqs >= 1 /\ (\/ lastMeta.offset = Absent
                      \/ lastMeta.count = Absent
                      \/ lastMeta.limit = Absent)) => pc # "request"

\* ------------------------------------------------------------------ C16
\* C16: after a 200 response has been parsed, _PAGES is 0 when the count the
\* server wrote is 0 and the least p with p * limit >= count when it is
\* positive, and _CURRENT_PAGE is the offset the server wrote.
C16_PageTotalDerivation ==
    (answer = StatusOK /\ pc # "raised") =>
        /\ Written("count") = 0 => PAGES = 0
        /\ Written("count") > 0 =>
               /\ PAGES * Written("limit") >= Written("count")
               /\ (PAGES - 1) * Written("limit") < Written("count")
        /\ CURRENT_PAGE = Written("offset")

C16_Witness ==
    /\ pc = "readback" /\ answer = StatusOK
    /\ lastMeta.count = 1 /\ lastMeta.limit = 2 /\ lastMeta.offset = 2
    /\ PAGES = 1 /\ CURRENT_PAGE = 2

\* ------------------------------------------------------------------ C13
\* C13: _RESULTS only grows at its end (its value before a step is a prefix
\* of its value after), and when the function returns it is the sequence of
\* the records of all 200 responses, in the order the requests were issued.
C13_AppendOnlyInOrder ==
    [][/\ Len(RESULTS) <= Len(RESULTS')
       /\ SubSeq(RESULTS', 1, Len(RESULTS)) = RESULTS
       /\ pc' = "done" => RESULTS' = Handed(sent')]_vars

C13_Witness ==
    /\ pc = "done" /\ Len(windows) >= 2
    /\ Len(RESULTS) = 2 /\ winBase = 2 /\ RESULTS = <<1, 2>>

\* ------------------------------------------------------------------ C14
\* C14: whenever the loop condition is evaluated after a request of the
\* window, current_page and pages are the values derived from the answer to
\* that request (which therefore was a parsed 200).
C14_MetadataFresh ==
    (pc = "inner" /\ winReqs >= 1) =>
        /\ answer = StatusOK
        /\ current_page = Written("offset")
        /\ pages = PageTotal(Written("count"), Written("limit"))

\* ------------------------------------------------------------------ C15
\* C15: the first request of a window carries offset 1 and every later one
\* the offset stored from the most recent 200 response plus 1; after a 200
\* response the loop goes on to sleep and its test, and the test leads to
\* another request exactly when the stored offset is below the page total.
C15_ServerOffsetAuthoritative ==
    [][/\ (pc = "request" /\ pc' # "request") =>
              req'.offset = IF winReqs = 0 THEN 1 ELSE CURRENT_PAGE + 1
       /\ (pc = "request" /\ winReqs >= 1) => CURRENT_PAGE # None
       /\ (pc = "readback" /\ pc' # "readback" /\ answer = StatusOK) =>
              pc' = "sleep"
       /\ (pc = "inner" /\ pc' # "inner" /\ winReqs >= 1
              /\ answer = StatusOK) =>
              (pc' = "request" <=> CURRENT_PAGE < PAGES)]_vars

C15_Witness ==
    /\ pc = "readback" /\ winReqs = 2 /\ first = StatusOK
    /\ req.offset = 1 /\ answer = StatusOK /\ CURRENT_PAGE = 2

\* ------------------------------------------------------------------ C17
\* C17: with the record-indexed server, when the loop of a window is left
\* the records accumulated for the window hold each of the window's records
\* 1..held exactly once.
C17_ExactlyOnce ==
    pc = "advance" =>
        LET w == SubSeq(RESULTS, winBase + 1, Len(RESULTS))
        IN  /\ Len(w) = held
            /\ {w[i] : i \in 1..Len(w)} = 1..held

====
